---- MODULE Spec2Model ----
(***************************************************************************)
(* The CCID pipe of usbd-ccid (src/src/pipe.rs, src/src/types/packet.rs)   *)
(* as a state machine.  The pipe, the APDU interchange channel it holds    *)
(* and the bulk-IN endpoint it writes to form one record; every method of  *)
(* Pipe is an operator from records to records, written statement by       *)
(* statement from the Rust source, and every entry point of the pipe is    *)
(* one action.  Bytes are integers 0..255, buffers are sequences of bytes, *)
(* Option<T> is a sequence of length 0 (None) or 1 (Some).                 *)
(***************************************************************************)
EXTENDS Integers, Sequences, FiniteSets, TLC

(***************************************************************************)
(* Constants of crate::constants (constants.rs is not among the sources;   *)
(* the values are those the specification gives: header 10, bulk MPS 64).  *)
(***************************************************************************)
CCID_HEADER_LEN == 10
PACKET_SIZE == 64
MAX_MSG_LENGTH == 3072

(* Capacity N of the APDU request/response buffers (const generic of Pipe). *)
N == 110
(* Host sequence numbers used by the modelled host are 1..MaxSeq.           *)
MaxSeq == 2

MaxPackets == 4

(* pipe.rs, enum Error *)
CmdAborted == 255
CommandNotSupported == 0

(* packet.rs, command_message! codes *)
CmdPowerOn == 98
CmdPowerOff == 99
CmdGetSlotStatus == 101
CmdGetParameters == 108
CmdXfrBlock == 111
CmdAbort == 114

(***************************************************************************)
(* Byte helpers.  Indices in the Rust source are 0-based; At and SetAt     *)
(* take the source's index.                                                *)
(***************************************************************************)
Min(a, b) == IF a < b THEN a ELSE b

At(s, i) == s[i + 1]

SetAt(s, i, v) == [s EXCEPT ![i + 1] = v]

zeroed_until(n) == [i \in 1..n |-> 0]

Slice(s, from, len) == SubSeq(s, from + 1, from + len)

from_le_bytes4(s) ==
    At(s, 1) + 256 * At(s, 2) + 65536 * At(s, 3) + 16777216 * At(s, 4)

to_le_bytes4(n) ==
    << n % 256, (n \div 256) % 256, (n \div 65536) % 256, (n \div 16777216) % 256 >>

RECURSIVE Xor(_, _)
Xor(a, b) ==
    IF a = 0 /\ b = 0 THEN 0
    ELSE ((a + b) % 2) + 2 * Xor(a \div 2, b \div 2)

RECURSIVE XorAll(_)
XorAll(s) == IF s = << >> THEN 0 ELSE Xor(s[1], XorAll(Tail(s)))

(***************************************************************************)
(* Packet codec (types/packet.rs)                                          *)
(***************************************************************************)
data_len(packet) == from_le_bytes4(packet)

try_from(ext) ==
    IF Len(ext) < CCID_HEADER_LEN THEN "ShortPacket"
    ELSE CASE At(ext, 0) = CmdPowerOn -> "PowerOn"
           [] At(ext, 0) = CmdPowerOff -> "PowerOff"
           [] At(ext, 0) = CmdGetSlotStatus -> "GetSlotStatus"
           [] At(ext, 0) = CmdGetParameters -> "GetParameters"
           [] At(ext, 0) = CmdXfrBlock -> "XfrBlock"
           [] At(ext, 0) = CmdAbort -> "Abort"
           [] OTHER -> "UnknownCommand"

packet_seq(ext) == At(ext, 6)

(* PacketWithData::data: the slice &self[10..][..len]; slicing past the    *)
(* end of the buffer panics.                                               *)
data(ext) ==
    LET declared_len == from_le_bytes4(ext)
        len == Min(MAX_MSG_LENGTH - CCID_HEADER_LEN, declared_len)
    IN  IF CCID_HEADER_LEN + len > Len(ext)
        THEN [panic |-> TRUE, bytes |-> << >>]
        ELSE [panic |-> FALSE, bytes |-> Slice(ext, CCID_HEADER_LEN, len)]

(* ChainedPacket::chain: any value but the five accepted ones panics.      *)
chain(ext) ==
    LET level_parameter == At(ext, 8) + 256 * At(ext, 9)
    IN  CASE level_parameter = 0 -> "BeginsAndEnds"
          [] level_parameter = 1 -> "Begins"
          [] level_parameter = 2 -> "Ends"
          [] level_parameter = 3 -> "Continues"
          [] level_parameter = 16 -> "ExpectingMore"
          [] OTHER -> "panic"

(* enum Chain, #[repr(u8)] *)
chain_u8(c) ==
    CASE c = "BeginsAndEnds" -> 0
      [] c = "Begins" -> 1
      [] c = "Ends" -> 2
      [] c = "Continues" -> 3
      [] c = "ExpectingMore" -> 16

(* DataBlock::new(seq, chain, data).into(): new panics on data that does   *)
(* not fit one packet with the header (assert!), impl From<DataBlock> for  *)
(* RawPacket writes the frame.                                             *)
DataBlock(seq, ch, bytes) ==
    IF Len(bytes) + CCID_HEADER_LEN > PACKET_SIZE
    THEN [panic |-> TRUE, bytes |-> << >>]
    ELSE [panic |-> FALSE,
          bytes |-> << 128 >> \o to_le_bytes4(Len(bytes))
                       \o << 0, seq, 0, 0, chain_u8(ch) >> \o bytes]

(* Pipe::construct_atr(card_issuers_data, signal_t_equals_0); the issuer   *)
(* data is an Option: << >> or << bytes >>.  More than 13 bytes of issuer  *)
(* data fail the assert! and the call panics; up to 13, k and the length   *)
(* are below 16 and the ors 0x80 | k and 0x50 | len are sums.              *)
construct_atr(card_issuers_data, signal_t_equals_0) ==
    IF card_issuers_data # << >> /\ Len(card_issuers_data[1]) > 13
    THEN [panic |-> TRUE, bytes |-> << >>]
    ELSE
    LET k == IF card_issuers_data = << >> THEN 0 ELSE 2 + Len(card_issuers_data[1])
        a1 == << 59, 128 + k >>
        a2 == IF signal_t_equals_0 THEN a1 \o << 128 >> ELSE a1
        a3 == a2 \o << 1 >>
        a4 == IF card_issuers_data = << >> THEN a3
              ELSE a3 \o << 128, 80 + Len(card_issuers_data[1]) >> \o card_issuers_data[1]
    IN  [panic |-> FALSE, bytes |-> a4 \o << XorAll(Tail(a4)) >>]

(***************************************************************************)
(* The record p: the fields of Pipe (pipe.rs 40-64), the interchange       *)
(* channel behind Pipe::interchange (ich_state, ich_msg), and the record   *)
(* of what the current entry-point call did (log, panicked).  A frame is   *)
(* [kind, bytes]: bytes is the RawPacket, kind names the builder that made *)
(* it ("resp", "atr", "empty", "wait", "ok", "err", "params", "zlp").      *)
(* The log lists, in order, what a call did: "command" (a fully received   *)
(* message reached the match on its type), "begin" (an XfrBlock opened a   *)
(* transaction), "call_app", "observed" (poll_app saw the response),       *)
(* "queue" (a frame was put in the outbox), "write" (the endpoint took a   *)
(* frame), "drop" (a pending frame was discarded), "reset", "abort".       *)
(***************************************************************************)
Frame(kind, bytes) == [kind |-> kind, bytes |-> bytes]

Ev(e) == [e |-> e]

EvF(e, f) == [e |-> e, f |-> f]

Note(p, ev) == [p EXCEPT !.log = Append(@, ev)]

Panic(p) == [p EXCEPT !.panicked = TRUE]

(* The ATR of Pipe::new: construct_atr(card_issuers_data, false).          *)
CardIssuersData == << >>

ATR == construct_atr(CardIssuersData, FALSE).bytes

(* Pipe::new *)
new ==
    [ seq |-> 0, state |-> "Idle", sent |-> 0, outbox |-> << >>,
      ext_packet |-> << >>, packet_len |-> 0, receiving_long |-> FALSE,
      long_packet_missing |-> 0, in_chain |-> 0, started_processing |-> FALSE,
      bulk_abort |-> << >>, control_abort |-> << >>,
      ich_state |-> "Idle", ich_msg |-> [kind |-> "None", bytes |-> << >>],
      log |-> << >>, panicked |-> construct_atr(CardIssuersData, FALSE).panic ]

(***************************************************************************)
(* The APDU rendezvous (spec section 5; the interchange crate is not in    *)
(* src/).  Channel states: Idle; Request, here BuildingRequest while the   *)
(* request buffer is held through request_mut and Requested once           *)
(* send_request has committed it; Processing, here BuildingResponse;       *)
(* Responded.  The channel holds one message, a request or a response.     *)
(***************************************************************************)
NoMsg == [kind |-> "None", bytes |-> << >>]

Rq(bytes) == [kind |-> "Request", bytes |-> bytes]

Rp(bytes) == [kind |-> "Response", bytes |-> bytes]

(* Requester::request(message).ok() *)
ich_request(p, message) ==
    IF p.ich_state = "Idle"
    THEN [p EXCEPT !.ich_state = "Requested", !.ich_msg = Rq(message)]
    ELSE p

(* Requester::cancel().ok(): forcibly returns to Idle, discarding any      *)
(* in-flight work.                                                         *)
ich_cancel(p) == [p EXCEPT !.ich_state = "Idle", !.ich_msg = NoMsg]

(* Requester::take_response() *)
ich_take_response(p) ==
    IF p.ich_state = "Responded"
    THEN [p EXCEPT !.ich_state = "Idle", !.ich_msg = NoMsg]
    ELSE p

(* Requester::request_mut(): Ok in Idle and BuildingRequest *)
ich_request_mut_ok(p) == p.ich_state \in {"Idle", "BuildingRequest"}

ich_request_mut(p) ==
    [p EXCEPT !.ich_state = "BuildingRequest",
              !.ich_msg = IF @.kind = "Request" THEN @ ELSE Rq(<< >>)]

(* Requester::send_request(): Ok in BuildingRequest *)
ich_send_request_ok(p) == p.ich_state = "BuildingRequest"

ich_send_request(p) == [p EXCEPT !.ich_state = "Requested"]

(* Requester::response(): Ok in Responded *)
ich_response_ok(p) == p.ich_state = "Responded"

(***************************************************************************)
(* Pipe methods (pipe.rs)                                                  *)
(***************************************************************************)
reset_interchange(p) == ich_take_response(ich_cancel(ich_request(p, << >>)))

(* A variant of reset_state that leaves the two abort halves as they are. *)
reset_state_keeps_abort_halves(p) ==
    LET q == IF p.outbox # << >> THEN Note(p, EvF("drop", p.outbox[1])) ELSE p
    IN  reset_interchange(
          [Note(q, Ev("reset")) EXCEPT
              !.seq = 0, !.state = "Idle", !.sent = 0, !.outbox = << >>,
              !.packet_len = 0, !.receiving_long = FALSE,
              !.long_packet_missing = 0, !.in_chain = 0,
              !.started_processing = FALSE])

reset_state(p) ==
    LET q == IF p.outbox # << >> THEN Note(p, EvF("drop", p.outbox[1])) ELSE p
    IN  reset_interchange(
          [Note(q, Ev("reset")) EXCEPT
              !.seq = 0, !.state = "Idle", !.sent = 0, !.outbox = << >>,
              !.packet_len = 0, !.receiving_long = FALSE,
              !.long_packet_missing = 0, !.in_chain = 0,
              !.started_processing = FALSE,
              !.bulk_abort = << >>, !.control_abort = << >>])

(* self.write.write(packet) with outcome w: "ok" is Ok(packet.len()),      *)
(* "partial" is Ok(n) with n < packet.len() (impossible for an empty       *)
(* packet, whose only Ok is Ok(0)), "block" is Err(WouldBlock), "error"    *)
(* any other Err.                                                          *)
write_result(packet, w) ==
    IF w = "partial" /\ Len(packet.bytes) = 0 THEN "ok" ELSE w

(* A variant of maybe_send_packet that gives up the frame on WouldBlock. *)
maybe_send_packet_drops_on_block(p, w) ==
    IF p.outbox = << >> THEN p
    ELSE LET packet == p.outbox[1]
             needs_zlp == Len(packet.bytes) = PACKET_SIZE
             r == write_result(packet, w)
         IN  CASE r = "ok" ->
                    [Note(p, EvF("write", packet)) EXCEPT
                        !.outbox = IF needs_zlp THEN << Frame("zlp", << >>) >> ELSE << >>]
               [] r = "partial" -> reset_state(p)
               [] r = "block" -> [p EXCEPT !.outbox = << >>]
               [] OTHER -> reset_state(p)

maybe_send_packet(p, w) ==
    IF p.outbox = << >> THEN p
    ELSE LET packet == p.outbox[1]
             needs_zlp == Len(packet.bytes) = PACKET_SIZE
             r == write_result(packet, w)
         IN  CASE r = "ok" ->
                    [Note(p, EvF("write", packet)) EXCEPT
                        !.outbox = IF needs_zlp THEN << Frame("zlp", << >>) >> ELSE << >>]
               [] r = "partial" -> reset_state(p)
               [] r = "block" -> p
               [] OTHER -> reset_state(p)

send_packet_assuming_possible(p, packet, w) ==
    LET p1 == IF p.outbox # << >>
              THEN [Note(p, EvF("drop", p.outbox[1])) EXCEPT !.state = "Idle"]
              ELSE p
    IN  maybe_send_packet([Note(p1, EvF("queue", packet)) EXCEPT !.outbox = << packet >>], w)

send_empty_datablock(p, ch, w) ==
    LET block == DataBlock(p.seq, ch, << >>)
    IN  IF block.panic THEN Panic(p)
        ELSE send_packet_assuming_possible(p, Frame("empty", block.bytes), w)

send_slot_status_ok(p, w) ==
    send_packet_assuming_possible(p,
        Frame("ok", SetAt(SetAt(zeroed_until(CCID_HEADER_LEN), 0, 129), 6, p.seq)), w)

send_slot_status_error(p, error, w) ==
    send_packet_assuming_possible(p,
        Frame("err", SetAt(SetAt(SetAt(SetAt(zeroed_until(CCID_HEADER_LEN),
                     0, 108), 6, p.seq), 7, 64), 8, error)), w)

send_parameters(p, w) ==
    send_packet_assuming_possible(p,
        Frame("params", [zeroed_until(17) EXCEPT ![1] = 130, ![2] = 7, ![7] = p.seq,
                         ![10] = 1, ![11] = 17, ![12] = 16, ![14] = 21, ![16] = 254]), w)

send_atr(p, w) ==
    LET block == DataBlock(p.seq, "BeginsAndEnds", ATR)
    IN  IF block.panic THEN Panic(p)
        ELSE send_packet_assuming_possible(p, Frame("atr", block.bytes), w)

call_app(p) ==
    IF ~ich_send_request_ok(p) THEN Panic(Note(p, Ev("could not deposit command")))
    ELSE [Note(ich_send_request(p), Ev("call_app")) EXCEPT
             !.started_processing = TRUE, !.state = "Processing"]

(* A variant of prime_outbox that returns on a full outbox without a reset. *)
prime_outbox_returns_on_full_outbox(p, w) ==
    IF p.state # "ReadyToSend" /\ p.state # "Sending" THEN p
    ELSE IF p.outbox # << >> THEN p
    ELSE IF ~ich_response_ok(p) THEN reset_state(p)
    ELSE LET message == p.ich_msg.bytes IN
         IF p.sent > Len(message) THEN Panic(p)
         ELSE LET chunk_size == Min(PACKET_SIZE - CCID_HEADER_LEN, Len(message) - p.sent)
                  chunk == Slice(message, p.sent, chunk_size)
                  sent == p.sent + chunk_size
                  more == sent < Len(message)
                  ch == CASE p.state = "ReadyToSend" /\ more -> "Begins"
                          [] p.state = "ReadyToSend" /\ ~more -> "BeginsAndEnds"
                          [] p.state = "Sending" /\ more -> "Continues"
                          [] OTHER -> "Ends"
                  state == IF more THEN "Sending" ELSE "Idle"
                  block == DataBlock(p.seq, ch, chunk)
                  primed_packet == Frame("resp", block.bytes)
             IN  IF block.panic THEN Panic(p)
                 ELSE maybe_send_packet(
                    [Note(p, EvF("queue", primed_packet)) EXCEPT
                        !.sent = sent, !.state = state, !.outbox = << primed_packet >>], w)

prime_outbox(p, w) ==
    IF p.state # "ReadyToSend" /\ p.state # "Sending" THEN p
    ELSE IF p.outbox # << >> THEN reset_state(p)
    ELSE IF ~ich_response_ok(p) THEN reset_state(p)
    ELSE LET message == p.ich_msg.bytes IN
         IF p.sent > Len(message) THEN Panic(p)
         ELSE LET chunk_size == Min(PACKET_SIZE - CCID_HEADER_LEN, Len(message) - p.sent)
                  chunk == Slice(message, p.sent, chunk_size)
                  sent == p.sent + chunk_size
                  more == sent < Len(message)
                  ch == CASE p.state = "ReadyToSend" /\ more -> "Begins"
                          [] p.state = "ReadyToSend" /\ ~more -> "BeginsAndEnds"
                          [] p.state = "Sending" /\ more -> "Continues"
                          [] OTHER -> "Ends"
                  state == IF more THEN "Sending" ELSE "Idle"
                  block == DataBlock(p.seq, ch, chunk)
                  primed_packet == Frame("resp", block.bytes)
             IN  IF block.panic THEN Panic(p)
                 ELSE maybe_send_packet(
                    [Note(p, EvF("queue", primed_packet)) EXCEPT
                        !.sent = sent, !.state = state, !.outbox = << primed_packet >>], w)

poll_app(p, w) ==
    IF p.state = "Processing" /\ p.ich_state = "Responded"
    THEN prime_outbox([Note(p, [e |-> "observed", rsp |-> p.ich_msg.bytes])
                          EXCEPT !.state = "ReadyToSend", !.sent = 0], w)
    ELSE p

(* A variant of send_wait_extension that also answers while a response is  *)
(* being sent.                                                             *)
send_wait_extension_while_sending(p, w) ==
    IF p.state \in {"Processing", "Sending"}
    THEN [pipe |-> send_packet_assuming_possible(p,
                      Frame("wait", SetAt(SetAt(SetAt(SetAt(zeroed_until(CCID_HEADER_LEN),
                            0, 128), 6, p.seq), 7, 128), 8, 1)), w),
          ret |-> TRUE]
    ELSE [pipe |-> p, ret |-> FALSE]

send_wait_extension(p, w) ==
    IF p.state = "Processing"
    THEN [pipe |-> send_packet_assuming_possible(p,
                      Frame("wait", SetAt(SetAt(SetAt(SetAt(zeroed_until(CCID_HEADER_LEN),
                            0, 128), 6, p.seq), 7, 128), 8, 1)), w),
          ret |-> TRUE]
    ELSE [pipe |-> p, ret |-> FALSE]

(* A variant of did_start_processing that reports the flag without         *)
(* clearing it.                                                            *)
did_start_processing_level(p) == [pipe |-> p, ret |-> p.started_processing]

did_start_processing(p) ==
    IF p.started_processing
    THEN [pipe |-> [p EXCEPT !.started_processing = FALSE], ret |-> TRUE]
    ELSE [pipe |-> p, ret |-> FALSE]

(* A variant of abort that leaves long_packet_missing as it is. *)
abort_keeps_long_packet_missing(p, w) ==
    send_slot_status_ok(
        ich_cancel(
          [Note(IF p.outbox # << >> THEN Note(p, EvF("drop", p.outbox[1])) ELSE p, Ev("abort"))
              EXCEPT !.bulk_abort = << >>, !.control_abort = << >>, !.state = "Idle",
                     !.outbox = << >>, !.started_processing = FALSE,
                     !.receiving_long = FALSE]), w)

abort(p, w) ==
    send_slot_status_ok(
        ich_cancel(
          [Note(IF p.outbox # << >> THEN Note(p, EvF("drop", p.outbox[1])) ELSE p, Ev("abort"))
              EXCEPT !.bulk_abort = << >>, !.control_abort = << >>, !.state = "Idle",
                     !.outbox = << >>, !.started_processing = FALSE,
                     !.receiving_long = FALSE, !.long_packet_missing = 0]), w)

(* A variant of expect_abort that does not compare the sequence numbers. *)
expect_abort_any_seq(p, seq, w) ==
    IF p.bulk_abort # << >> THEN abort(p, w)
    ELSE [p EXCEPT !.control_abort = << seq >>]

(* A variant of expect_abort that records the control half and never runs  *)
(* the abort procedure.                                                    *)
expect_abort_records_only(p, seq, w) == [p EXCEPT !.control_abort = << seq >>]

(* expect_abort with slot = 0 (the debug_assert holds) *)
expect_abort(p, seq, w) ==
    IF p.bulk_abort = << seq >> THEN abort(p, w)
    ELSE [p EXCEPT !.control_abort = << seq >>]

(* A variant of extend_ok that lets the request grow past the capacity. *)
extend_ok_unbounded(p, bytes, clear) == TRUE

(* message.clear() (when clear is TRUE), then                              *)
(* message.extend_from_slice(command.data()): Err when the capacity N      *)
(* would be exceeded, and then nothing is copied.                          *)
extend_ok(p, bytes, clear) ==
    (IF clear THEN 0 ELSE Len(p.ich_msg.bytes)) + Len(bytes) <= N

extend_request(p, bytes, clear) ==
    [p EXCEPT !.ich_msg = Rq((IF clear THEN << >> ELSE @.bytes) \o bytes)]

(* The Idle arms Ok(BeginsAndEnds) and Ok(Begins) of handle_transfer *)
transfer_begin(p, ends, w) ==
    LET p1 == reset_interchange(p) IN
    IF ~ich_request_mut_ok(p1) THEN reset_state(p1)
    ELSE LET p2 == ich_request_mut(p1)
             d == data(p2.ext_packet)
         IN  IF d.panic THEN Panic(p2)
             ELSE IF ~extend_ok(p2, d.bytes, TRUE) THEN reset_state(extend_request(p2, << >>, TRUE))
             ELSE IF ends
                  THEN [call_app(Note(extend_request(p2, d.bytes, TRUE), Ev("begin")))
                           EXCEPT !.state = "Processing"]
                  ELSE send_empty_datablock(
                         [Note(extend_request(p2, d.bytes, TRUE), Ev("begin"))
                             EXCEPT !.state = "Receiving"],
                         "ExpectingMore", w)

(* A variant of the Receiving arms that clears the request buffer before   *)
(* copying the payload, as the Idle arms do.                               *)
transfer_continue_with_clear(p, ends, w) ==
    IF ~ich_request_mut_ok(p) THEN reset_state(p)
    ELSE LET p2 == ich_request_mut(p)
             d == data(p2.ext_packet)
         IN  IF d.panic THEN Panic(p2)
             ELSE IF ~extend_ok(p2, d.bytes, TRUE) THEN reset_state(p2)
             ELSE IF ends
                  THEN [call_app(extend_request(p2, d.bytes, TRUE)) EXCEPT !.state = "Processing"]
                  ELSE send_empty_datablock(extend_request(p2, d.bytes, TRUE), "ExpectingMore", w)

(* The Receiving arms Ok(Continues) and Ok(Ends) of handle_transfer *)
transfer_continue(p, ends, w) ==
    IF ~ich_request_mut_ok(p) THEN reset_state(p)
    ELSE LET p2 == ich_request_mut(p)
             d == data(p2.ext_packet)
         IN  IF d.panic THEN Panic(p2)
             ELSE IF ~extend_ok(p2, d.bytes, FALSE) THEN reset_state(p2)
             ELSE IF ends
                  THEN [call_app(extend_request(p2, d.bytes, FALSE)) EXCEPT !.state = "Processing"]
                  ELSE send_empty_datablock(extend_request(p2, d.bytes, FALSE), "ExpectingMore", w)

(* handle_transfer(command): the command is the reassembled p.ext_packet *)
handle_transfer(p, w) ==
    CASE p.state = "Idle" ->
            LET c == chain(p.ext_packet) IN
            CASE c = "panic" -> Panic(p)
              [] c = "BeginsAndEnds" -> transfer_begin(p, TRUE, w)
              [] c = "Begins" -> transfer_begin(p, FALSE, w)
              [] OTHER -> reset_state(p)
      [] p.state = "Receiving" ->
            LET c == chain(p.ext_packet) IN
            CASE c = "panic" -> Panic(p)
              [] c = "Continues" -> transfer_continue(p, FALSE, w)
              [] c = "Ends" -> transfer_continue(p, TRUE, w)
              [] OTHER -> reset_state(p)
      [] p.state \in {"Processing", "ReadyToSend"} -> reset_state(p)
      [] OTHER ->
            LET c == chain(p.ext_packet) IN
            CASE c = "panic" -> Panic(p)
              [] c = "ExpectingMore" -> prime_outbox(p, w)
              [] OTHER -> reset_state(p)

(* A variant of the happy path in which a bulk Abort runs the abort        *)
(* procedure at once, without waiting for the control half.                *)
happy_path_abort_at_once(p, command, w) ==
    CASE command = "PowerOn" -> send_atr(p, w)
      [] command = "PowerOff" -> send_slot_status_ok(p, w)
      [] command = "GetSlotStatus" -> send_slot_status_ok(p, w)
      [] command = "XfrBlock" -> handle_transfer(p, w)
      [] command = "Abort" -> abort(p, w)
      [] OTHER -> send_parameters(p, w)

(* handle_packet 226-238: the happy path *)
happy_path(p, command, w) ==
    CASE command = "PowerOn" -> send_atr(p, w)
      [] command = "PowerOff" -> send_slot_status_ok(p, w)
      [] command = "GetSlotStatus" -> send_slot_status_ok(p, w)
      [] command = "XfrBlock" -> handle_transfer(p, w)
      [] command = "Abort" -> [p EXCEPT !.bulk_abort = << p.seq >>]
      [] OTHER -> send_parameters(p, w)

(* A variant of the gate that lets any bulk Abort complete the abort. *)
control_abort_gate_any_abort(p, command, w) ==
    IF command = "Abort"
    THEN abort(p, w)
    ELSE send_slot_status_error(p, CmdAborted, w)

(* handle_packet 215-222: a control ABORT is pending *)
control_abort_gate(p, command, w) ==
    IF command = "Abort" /\ p.control_abort[1] = p.seq
    THEN abort(p, w)
    ELSE send_slot_status_error(p, CmdAborted, w)

(* A variant of the UnknownCommand arm that does not take over the bSeq. *)
unknown_command_keeps_seq(p, w) ==
    send_slot_status_error(p, CommandNotSupported, w)

(* handle_packet 246-250: Err(UnknownCommand) *)
unknown_command(p, w) ==
    send_slot_status_error([p EXCEPT !.seq = At(p.ext_packet, 6)], CommandNotSupported, w)

(* handle_packet 209-251: the match on PacketCommand::try_from(ext_packet) *)
(* A variant of the dispatch that does not record the bSeq of the command. *)
dispatch_keeps_seq(p, w) ==
    LET command == try_from(p.ext_packet)
        q == Note(p, [e |-> "command", c |-> command])
    IN  CASE command = "ShortPacket" -> reset_state(q)
          [] command = "UnknownCommand" -> unknown_command(q, w)
          [] OTHER ->
                IF q.control_abort # << >>
                THEN control_abort_gate(q, command, w)
                ELSE happy_path([q EXCEPT !.bulk_abort = << >>], command, w)

dispatch(p, w) ==
    LET command == try_from(p.ext_packet)
        q == Note(p, [e |-> "command", c |-> command])
    IN  CASE command = "ShortPacket" -> reset_state(q)
          [] command = "UnknownCommand" -> unknown_command(q, w)
          [] OTHER ->
                LET p1 == [q EXCEPT !.seq = packet_seq(q.ext_packet)] IN
                IF p1.control_abort # << >>
                THEN control_abort_gate(p1, command, w)
                ELSE happy_path([p1 EXCEPT !.bulk_abort = << >>], command, w)

(* A variant of the first-packet branch that compares dwLength with        *)
(* PACKET_SIZE, not with the room left after the header.                   *)
first_packet_threshold_packet_size(p, packet, w) ==
    IF Len(packet) < CCID_HEADER_LEN THEN reset_state(p)
    ELSE LET p1 == [p EXCEPT !.ext_packet = packet]
             pl == data_len(packet)
         IN  IF pl > PACKET_SIZE
             THEN [p1 EXCEPT !.receiving_long = TRUE, !.in_chain = 1,
                             !.long_packet_missing = pl - (PACKET_SIZE - CCID_HEADER_LEN),
                             !.packet_len = pl]
             ELSE dispatch(p1, w)

(* handle_packet 159-178: the first USB packet of a message *)
first_packet(p, packet, w) ==
    IF Len(packet) < CCID_HEADER_LEN THEN reset_state(p)
    ELSE LET p1 == [p EXCEPT !.ext_packet = packet]
             pl == data_len(packet)
         IN  IF pl > PACKET_SIZE - CCID_HEADER_LEN
             THEN [p1 EXCEPT !.receiving_long = TRUE, !.in_chain = 1,
                             !.long_packet_missing = pl - (PACKET_SIZE - CCID_HEADER_LEN),
                             !.packet_len = pl]
             ELSE dispatch(p1, w)

(* handle_packet 179-204: a continuation USB packet *)
continuation_packet(p, packet, w) ==
    IF Len(p.ext_packet) + Len(packet) > MAX_MSG_LENGTH THEN reset_state(p)
    ELSE LET p1 == [p EXCEPT !.ext_packet = @ \o packet, !.in_chain = @ + 1,
                             !.long_packet_missing =
                                 IF Len(packet) > @ THEN 0 ELSE @ - Len(packet)]
         IN  IF p1.long_packet_missing # 0 THEN p1
             ELSE dispatch([p1 EXCEPT !.receiving_long = FALSE], w)

handle_packet(p, packet, w) ==
    IF ~p.receiving_long
    THEN first_packet(p, packet, w)
    ELSE continuation_packet(p, packet, w)

(***************************************************************************)
(* The environment: the USB host (bulk-OUT packets, control ABORT), the    *)
(* bulk-IN endpoint (the outcome of each write) and the APDU processor at  *)
(* the other end of the interchange channel.                               *)
(***************************************************************************)
Pattern(base, n) == [i \in 1..n |-> (base + i - 1) % 256]

(* A CCID message: header (type, dwLength, slot 0, bSeq, byte 7 zero,      *)
(* bytes 8..10 the level parameter) and payload.                           *)
Msg(type, dwLength, seq, level, payload) ==
    << type >> \o to_le_bytes4(dwLength) \o << 0, seq, 0, level % 256, level \div 256 >>
        \o payload

Seqs == 1..MaxSeq

(* A command byte that try_from does not know. *)
CmdUnknown == CmdPowerOn - 1

FullPayload == PACKET_SIZE - CCID_HEADER_LEN

Cmd(type, seq) == Msg(type, 0, seq, 0, << >>)

Xfr(seq, level) == Msg(CmdXfrBlock, FullPayload, seq, level, Pattern(160, FullPayload))

(* Bulk-OUT packets the modelled host sends, in any order and at any time: *)
(* GetSlotStatus, Abort with either sequence number, an unknown command,   *)
(* an XfrBlock (BeginsAndEnds) whose request data fills the packet, the    *)
(* XfrBlock (ExpectingMore) that asks for the next chunk of a response,    *)
(* the full-size first packet of an XfrBlock of FullPayload + 1 bytes, and *)
(* a one-byte packet, which is its continuation or a stray short packet.   *)
HostPackets ==
    { Cmd(CmdGetSlotStatus, 2),
      Cmd(CmdAbort, 1), Cmd(CmdAbort, 2),
      Cmd(CmdUnknown, 2),
      Xfr(1, 0),
      Msg(CmdXfrBlock, 0, 2, 16, << >>),
      Msg(CmdXfrBlock, FullPayload + 1, 1, 0, Pattern(1, FullPayload)),
      << 7 >> }

WriteOutcomes == {"ok", "block", "partial", "error"}

(* Lengths of the responses the APDU processor gives: a short one and one  *)
(* that needs three frames.                                                *)
ResponseLens == {2, N - 1}

Responses == { Pattern(80, n) : n \in ResponseLens }

(* interchange::Responder::take_request *)
responder_take_request(p) ==
    [p EXCEPT !.ich_state = "BuildingResponse", !.ich_msg = NoMsg]

(* interchange::Responder::respond *)
responder_respond(p, response) ==
    [p EXCEPT !.ich_state = "Responded", !.ich_msg = Rp(response)]

(***************************************************************************)
(* Calls of the public entry points.  A call is the entry point, its       *)
(* argument (a packet, or the one-element sequence of a sequence number),  *)
(* the outcome w of the endpoint write it may make, the resulting record r *)
(* with the log of the call, and the returned boolean.                     *)
(***************************************************************************)
Call(op, arg, w, r, ret) == [op |-> op, arg |-> arg, w |-> w, r |-> r, ret |-> ret]

HandlePacketCalls(p) ==
    { Call("handle_packet", packet, w, handle_packet(p, packet, w), FALSE) :
        packet \in HostPackets, w \in WriteOutcomes }

ExpectAbortCalls(p) ==
    { Call("expect_abort", << seq >>, w, expect_abort(p, seq, w), FALSE) :
        seq \in Seqs, w \in WriteOutcomes }

PollAppCalls(p) ==
    { Call("poll_app", << >>, w, poll_app(p, w), FALSE) : w \in WriteOutcomes }

MaybeSendPacketCalls(p) ==
    { Call("maybe_send_packet", << >>, w, maybe_send_packet(p, w), FALSE) :
        w \in WriteOutcomes }

SendWaitExtensionCalls(p) ==
    { Call("send_wait_extension", << >>, w,
           send_wait_extension(p, w).pipe, send_wait_extension(p, w).ret) :
        w \in WriteOutcomes }

DidStartProcessingCalls(p) ==
    { Call("did_start_processing", << >>, "ok",
           did_start_processing(p).pipe, did_start_processing(p).ret) }

ResetStateCalls(p) == { Call("reset_state", << >>, "ok", reset_state(p), FALSE) }

PrimeOutboxCalls(p) ==
    { Call("prime_outbox", << >>, w, prime_outbox(p, w), FALSE) : w \in WriteOutcomes }

Calls(p) ==
    IF p.panicked THEN {}
    ELSE HandlePacketCalls(p) \cup ExpectAbortCalls(p) \cup PollAppCalls(p)
           \cup MaybeSendPacketCalls(p) \cup SendWaitExtensionCalls(p)
           \cup DidStartProcessingCalls(p) \cup ResetStateCalls(p)
           \cup PrimeOutboxCalls(p)

(* The log has an event of kind e; the frames a log queued and wrote *)
Has(log, e) == \E i \in 1..Len(log) : log[i].e = e

Queued(log) == { log[i].f : i \in { j \in 1..Len(log) : log[j].e = "queue" } }

Written(log) == { log[i].f : i \in { j \in 1..Len(log) : log[j].e = "write" } }

(* bSeq of a frame; the Chain tag and the payload of a DataBlock frame *)
FrameSeq(f) == At(f.bytes, 6)

FrameChain(f) == At(f.bytes, 9)

FramePayload(f) == SubSeq(f.bytes, CCID_HEADER_LEN + 1, Len(f.bytes))

(***************************************************************************)
(* History.  What the properties need of the past and the program does not *)
(* keep: txn, the bSeq of the XfrBlock that opened the last transaction;   *)
(* cmdseq, the bSeq of the last fully received bulk message; qseq, the     *)
(* value of cmdseq when the frame now in the outbox was queued; and the    *)
(* burst: the response last observed by poll_app, the payload bytes of it  *)
(* written so far and the number of frames that carried them.              *)
(***************************************************************************)
NoBurst == [rsp |-> << >>, wr |-> << >>, n |-> 0, done |-> FALSE, ok |-> TRUE]

HistInit ==
    [txn |-> 0, cmdseq |-> 0, qseq |-> 0, burst |-> NoBurst, armed |-> FALSE,
     answer |-> << >>]

IsPrefix(s, t) == Len(s) <= Len(t) /\ SubSeq(t, 1, Len(s)) = s

(* One event of a log, applied to the burst.  A written DataBlock frame of *)
(* a response is in order when a Begins or BeginsAndEnds frame is the      *)
(* first of its response and no other is, no frame follows the final one,  *)
(* the bytes written so far are a prefix of the response, and the frame is *)
(* tagged Ends or BeginsAndEnds exactly when they are all of it.           *)
BurstStep(b, ev) ==
    CASE ev.e = "observed" -> [NoBurst EXCEPT !.rsp = ev.rsp, !.ok = b.ok]
      [] ev.e = "write" /\ ev.f.kind = "resp" ->
            LET tag == FrameChain(ev.f)
                first == tag \in {chain_u8("BeginsAndEnds"), chain_u8("Begins")}
                last == tag \in {chain_u8("BeginsAndEnds"), chain_u8("Ends")}
                wr == b.wr \o FramePayload(ev.f)
            IN  [b EXCEPT !.wr = wr, !.n = @ + 1, !.done = last,
                          !.ok = /\ @
                                 /\ ~b.done
                                 /\ first <=> (b.n = 0)
                                 /\ IsPrefix(wr, b.rsp)
                                 /\ last <=> (wr = b.rsp)]
      [] OTHER -> b

RECURSIVE BurstFold(_, _)
BurstFold(b, log) ==
    IF log = << >> THEN b ELSE BurstFold(BurstStep(b, Head(log)), Tail(log))

(* No frame of the burst can follow: the response is not being sent and    *)
(* none of its frames is pending.                                          *)
BurstOver(r) ==
    /\ r.state # "Sending"
    /\ r.outbox = << >> \/ r.outbox[1].kind # "resp"

(* armed: an APDU request was dispatched (call_app) and since then neither  *)
(* a reset, nor an abort, nor a did_start_processing call that returned    *)
(* true has happened.                                                      *)
RECURSIVE ArmedFold(_, _)
ArmedFold(a, log) ==
    IF log = << >> THEN a
    ELSE ArmedFold(CASE Head(log).e = "call_app" -> TRUE
                     [] Head(log).e \in {"reset", "abort"} -> FALSE
                     [] OTHER -> a,
                   Tail(log))

(* answer: the response the APDU processor gave to the request of the last *)
(* dispatch (call_app), if it gave one and neither a later dispatch, nor a *)
(* reset, nor an abort has happened since.                                 *)
RECURSIVE AnswerFold(_, _)
AnswerFold(a, log) ==
    IF log = << >> THEN a
    ELSE AnswerFold(IF Head(log).e \in {"call_app", "reset", "abort"} THEN << >> ELSE a,
                    Tail(log))

Track(h, c) ==
    LET log == c.r.log
        cmdseq == IF Has(log, "command") THEN At(c.r.ext_packet, 6) ELSE h.cmdseq
        b == BurstFold(h.burst, log)
    IN  IF c.r.panicked THEN HistInit
        ELSE [ txn |-> IF Has(log, "begin") THEN At(c.r.ext_packet, 6) ELSE h.txn,
               cmdseq |-> cmdseq,
               qseq |-> IF c.r.outbox = << >> \/ c.r.outbox[1].kind = "zlp" THEN 0
                        ELSE IF Has(log, "queue") THEN cmdseq ELSE h.qseq,
               burst |-> IF BurstOver(c.r) THEN NoBurst ELSE b,
               armed |-> IF c.op = "did_start_processing" /\ c.ret THEN FALSE
                         ELSE ArmedFold(h.armed, log),
               answer |-> AnswerFold(h.answer, log) ]

(***************************************************************************)
(* The state machine.  pipe is the record between entry-point calls: its   *)
(* log is empty (the log of a call is read by the properties, which apply  *)
(* the entry point to the state), and a panic, which halts the firmware,   *)
(* leads to the one state Halted.  feed is used by the reassembly          *)
(* specification only: a message, the sizes of the USB packets it is cut   *)
(* into, and the packets not yet delivered.                                *)
(***************************************************************************)
VARIABLES pipe, hist, feed

vars == << pipe, hist, feed >>

Halted == [new EXCEPT !.panicked = TRUE]

Settle(r) == IF r.panicked THEN Halted ELSE [r EXCEPT !.log = << >>]

NoFeed == [msg |-> << >>, sizes |-> << >>, rest |-> << >>, dispatched |-> 0]

Init == pipe = new /\ hist = HistInit /\ feed = NoFeed

Step(c) == pipe' = Settle(c.r) /\ hist' = Track(hist, c) /\ UNCHANGED feed

HandlePacket == \E c \in HandlePacketCalls(pipe) : ~pipe.panicked /\ Step(c)

ExpectAbort == \E c \in ExpectAbortCalls(pipe) : ~pipe.panicked /\ Step(c)

(* expect_abort with slot # 0: the debug_assert panics in a debug build,   *)
(* a release build returns without effect.                                 *)
ExpectAbortOtherSlot ==
    /\ ~pipe.panicked
    /\ \E build \in {"debug", "release"} :
          /\ pipe' = Settle(IF build = "debug" THEN Panic(pipe) ELSE pipe)
          /\ hist' = IF build = "debug" THEN HistInit ELSE hist
    /\ UNCHANGED feed

PollApp == \E c \in PollAppCalls(pipe) : ~pipe.panicked /\ Step(c)

MaybeSendPacket == \E c \in MaybeSendPacketCalls(pipe) : ~pipe.panicked /\ Step(c)

SendWaitExtension == \E c \in SendWaitExtensionCalls(pipe) : ~pipe.panicked /\ Step(c)

DidStartProcessing == \E c \in DidStartProcessingCalls(pipe) : ~pipe.panicked /\ Step(c)

ResetState == \E c \in ResetStateCalls(pipe) : ~pipe.panicked /\ Step(c)

(* prime_outbox is public: called on its own it queues the next chunk of   *)
(* the response while the pipe is Sending.                                 *)
PrimeOutbox == \E c \in PrimeOutboxCalls(pipe) : ~pipe.panicked /\ Step(c)

AppTakeRequest ==
    /\ ~pipe.panicked
    /\ pipe.ich_state = "Requested"
    /\ pipe' = responder_take_request(pipe)
    /\ UNCHANGED << hist, feed >>

AppRespond ==
    /\ ~pipe.panicked
    /\ pipe.ich_state = "BuildingResponse"
    /\ \E response \in Responses :
          /\ pipe' = responder_respond(pipe, response)
          /\ hist' = [hist EXCEPT !.answer = << response >>]
    /\ UNCHANGED feed

Next ==
    \/ HandlePacket
    \/ ExpectAbort
    \/ ExpectAbortOtherSlot
    \/ PollApp
    \/ MaybeSendPacket
    \/ SendWaitExtension
    \/ DidStartProcessing
    \/ ResetState
    \/ PrimeOutbox
    \/ AppTakeRequest
    \/ AppRespond

Spec == Init /\ [][Next]_vars

(***************************************************************************)
(* Reassembly: one XfrBlock (BeginsAndEnds) message with dwLength D, cut   *)
(* into at most MaxPackets USB packets, each of a size in PacketSizes and  *)
(* the first holding at least the header, delivered in order to a new      *)
(* pipe.  feed.dispatched counts the calls that reached the match on the   *)
(* command type.                                                           *)
(***************************************************************************)
ReasmLens == {0, 3, FullPayload, FullPayload + 1, FullPayload + 3, N - 1}

PacketSizes ==
    {1, 2, 3, CCID_HEADER_LEN, CCID_HEADER_LEN + 3, FullPayload - 1, FullPayload + 1,
     PACKET_SIZE}

RECURSIVE Compositions(_, _)
Compositions(total, k) ==
    IF total = 0 THEN { << >> }
    ELSE IF k = 0 THEN {}
    ELSE UNION { { << n >> \o rest : rest \in Compositions(total - n, k - 1) } :
                   n \in { m \in PacketSizes : m <= total } }

RECURSIVE Cut(_, _)
Cut(bytes, sizes) ==
    IF sizes = << >> THEN << >>
    ELSE << SubSeq(bytes, 1, Head(sizes)) >>
           \o Cut(SubSeq(bytes, Head(sizes) + 1, Len(bytes)), Tail(sizes))

ReasmMsg(D) == Msg(CmdXfrBlock, D, 1, 0, Pattern(1, D))

Feeds ==
    UNION { { [msg |-> ReasmMsg(D), sizes |-> z, rest |-> Cut(ReasmMsg(D), z),
               dispatched |-> 0] :
                z \in { y \in Compositions(D + CCID_HEADER_LEN, MaxPackets) :
                          y[1] >= CCID_HEADER_LEN } } :
            D \in ReasmLens }

InitReasm == pipe = new /\ hist = HistInit /\ feed \in Feeds

FeedPacket ==
    /\ ~pipe.panicked
    /\ feed.rest # << >>
    /\ \E w \in WriteOutcomes :
          LET c == Call("handle_packet", Head(feed.rest), w,
                        handle_packet(pipe, Head(feed.rest), w), FALSE)
          IN  /\ pipe' = Settle(c.r)
              /\ hist' = Track(hist, c)
              /\ feed' = [feed EXCEPT !.rest = Tail(@),
                                      !.dispatched = @ + IF Has(c.r.log, "command")
                                                         THEN 1 ELSE 0]

NextReasm == FeedPacket

SpecReasm == InitReasm /\ [][NextReasm]_vars

(***************************************************************************)
(* Overflow: sequences of USB packets that fill the two buffers to their   *)
(* capacity and past it, delivered in order to a new pipe while the APDU   *)
(* processor runs.  A message is cut into full packets and a last shorter  *)
(* one.                                                                    *)
(***************************************************************************)
RECURSIVE FullSizes(_)
FullSizes(n) ==
    IF n <= PACKET_SIZE THEN << n >> ELSE << PACKET_SIZE >> \o FullSizes(n - PACKET_SIZE)

(* The USB packets of an XfrBlock with D bytes of data *)
XfrPackets(D, level) ==
    LET msg == Msg(CmdXfrBlock, D, 1, level, Pattern(1, D))
    IN  Cut(msg, FullSizes(Len(msg)))

(* A message that fills the reassembly buffer, and one that is one header  *)
(* longer; a single request of N bytes and of N + 1 bytes, as a whole and  *)
(* as the first piece of a chain; chains of three pieces, of which two fit *)
(* the request buffer; and an XfrBlock repeated while the first is being   *)
(* processed.                                                              *)
OverflowFeeds ==
    { XfrPackets(MAX_MSG_LENGTH - CCID_HEADER_LEN, 0),
      XfrPackets(MAX_MSG_LENGTH, 0),
      XfrPackets(N, 0), XfrPackets(N + 1, 0),
      XfrPackets(N, 1) \o << Xfr(1, 2) >>, XfrPackets(N + 1, 1),
      << Xfr(1, 1), Xfr(1, 3), Xfr(1, 3) >>,
      << Xfr(1, 1), Xfr(1, 3), Xfr(1, 2) >>,
      << Xfr(1, 0), Xfr(1, 0), Xfr(1, 0) >> }

InitOverflow ==
    /\ pipe = new /\ hist = HistInit
    /\ \E packets \in OverflowFeeds : feed = [NoFeed EXCEPT !.rest = packets]

NextOverflow ==
    \/ FeedPacket
    \/ AppTakeRequest
    \/ AppRespond

SpecOverflow == InitOverflow /\ [][NextOverflow]_vars

(***************************************************************************)
(* Chaining: the host sends XfrBlock messages only, with every chaining    *)
(* tag (BeginsAndEnds, Begins, Continues, Ends, ExpectingMore) and with a  *)
(* level parameter that is none of the five; the request data of each      *)
(* fills a packet, so that a request of two pieces fits in N bytes and one *)
(* of three does not.                                                      *)
(***************************************************************************)
(* The least level parameter that chain() does not know. *)
InvalidLevel == chain_u8("Continues") + 1

ChainPackets ==
    { Xfr(1, 0), Xfr(1, 1), Xfr(1, 3), Xfr(2, 2),
      Msg(CmdXfrBlock, 0, 2, 16, << >>),
      Xfr(2, InvalidLevel) }

ChainPacketCalls(p) ==
    { Call("handle_packet", packet, w, handle_packet(p, packet, w), FALSE) :
        packet \in ChainPackets, w \in WriteOutcomes }

ChainPacket == \E c \in ChainPacketCalls(pipe) : ~pipe.panicked /\ Step(c)

NextChain ==
    \/ ChainPacket
    \/ PollApp
    \/ MaybeSendPacket
    \/ AppTakeRequest
    \/ AppRespond

SpecChain == Init /\ [][NextChain]_vars

(***************************************************************************)
(* Assembly of a chained request: the host sends the pieces of a chain,    *)
(* each with a payload of its own, a whole request in one XfrBlock, and a  *)
(* local command, in any order, while the APDU processor runs and the      *)
(* response is polled and sent.  feed.msg is the request the host has      *)
(* sent so far: the payload of the XfrBlock that began in Idle, followed   *)
(* by those of the pieces that came in Receiving; a reset discards it.     *)
(* feed.dispatched is 1 when a local command came between the pieces.      *)
(***************************************************************************)
Piece(level, payload) == Msg(CmdXfrBlock, Len(payload), 1, level, payload)

ContinuesLen == 40

AssemblePackets ==
    { Piece(1, Pattern(1, 2)),
      Piece(3, Pattern(3, ContinuesLen)),
      Piece(2, Pattern(200, 2)),
      Piece(0, Pattern(100, 1)),
      Cmd(CmdGetSlotStatus, 2) }

AssembleCalls(p) ==
    IF p.panicked THEN {}
    ELSE { Call("handle_packet", packet, w, handle_packet(p, packet, w), FALSE) :
             packet \in AssemblePackets, w \in WriteOutcomes }

Begun(p, c) ==
    /\ try_from(c.arg) = "XfrBlock"
    /\ p.state = "Idle" /\ chain(c.arg) \in {"BeginsAndEnds", "Begins"}

Continued(p, c) ==
    /\ try_from(c.arg) = "XfrBlock"
    /\ p.state = "Receiving" /\ chain(c.arg) \in {"Continues", "Ends"}

Sent(f, p, c) ==
    CASE Has(c.r.log, "reset") -> [f EXCEPT !.msg = << >>, !.dispatched = 0]
      [] Begun(p, c) -> [f EXCEPT !.msg = data(c.arg).bytes, !.dispatched = 0]
      [] Continued(p, c) -> [f EXCEPT !.msg = @ \o data(c.arg).bytes]
      [] p.state = "Receiving" /\ try_from(c.arg) # "XfrBlock" -> [f EXCEPT !.dispatched = 1]
      [] OTHER -> f

AssemblePacket ==
    \E c \in AssembleCalls(pipe) :
        /\ pipe' = Settle(c.r)
        /\ hist' = Track(hist, c)
        /\ feed' = IF c.r.panicked THEN NoFeed ELSE Sent(feed, pipe, c)

NextAssemble ==
    \/ AssemblePacket
    \/ PollApp
    \/ MaybeSendPacket
    \/ AppTakeRequest
    \/ AppRespond

SpecAssemble == Init /\ [][NextAssemble]_vars

(***************************************************************************)
(* Progress of a transaction.  The host sends an XfrBlock when nothing is  *)
(* outstanding, and after that nothing but one XfrBlock(ExpectingMore)     *)
(* after each frame of the response that is not the last; the firmware     *)
(* calls poll_app and maybe_send_packet again and again and may call       *)
(* send_wait_extension; the endpoint accepts a write or returns            *)
(* WouldBlock, and does not return WouldBlock forever; the APDU processor  *)
(* takes the request and responds.  feed.dispatched is 1 when no           *)
(* transaction is outstanding: at the start, and from the call that writes *)
(* the last frame of the complete response until the next XfrBlock is      *)
(* accepted.                                                               *)
(***************************************************************************)
LiveOutcomes == {"ok", "block"}

InitLive == pipe = new /\ hist = HistInit /\ feed = [NoFeed EXCEPT !.dispatched = 1]

(* The call wrote the last frame of the response and with it all its bytes *)
Completes(c) ==
    LET b == BurstFold(hist.burst, c.r.log) IN
    /\ \E f \in Written(c.r.log) : f.kind = "resp"
    /\ b.ok /\ b.done /\ b.wr = b.rsp

LiveStep(c) ==
    /\ pipe' = Settle(c.r)
    /\ hist' = Track(hist, c)
    /\ feed' = [feed EXCEPT !.dispatched =
                    CASE c.r.panicked -> 0
                      [] Has(c.r.log, "call_app") -> 0
                      [] Completes(c) -> 1
                      [] OTHER -> @]

LiveXfrBlock ==
    /\ ~pipe.panicked
    /\ feed.dispatched = 1 /\ pipe.state = "Idle" /\ pipe.outbox = << >>
    /\ \E seq \in 1..MaxSeq, w \in LiveOutcomes :
          LiveStep(Call("handle_packet", Xfr(seq, 0), w,
                        handle_packet(pipe, Xfr(seq, 0), w), FALSE))

LiveExpectingMore ==
    /\ ~pipe.panicked
    /\ pipe.state = "Sending" /\ pipe.outbox = << >>
    /\ \E w \in LiveOutcomes :
          LET packet == Msg(CmdXfrBlock, 0, pipe.seq, chain_u8("ExpectingMore"), << >>)
          IN  LiveStep(Call("handle_packet", packet, w, handle_packet(pipe, packet, w), FALSE))

LivePollApp ==
    /\ ~pipe.panicked
    /\ \E w \in LiveOutcomes : LiveStep(Call("poll_app", << >>, w, poll_app(pipe, w), FALSE))

LiveMaybeSendAccepted ==
    /\ ~pipe.panicked
    /\ LiveStep(Call("maybe_send_packet", << >>, "ok", maybe_send_packet(pipe, "ok"), FALSE))

LiveMaybeSendWouldBlock ==
    /\ ~pipe.panicked
    /\ LiveStep(Call("maybe_send_packet", << >>, "block",
                      maybe_send_packet(pipe, "block"), FALSE))

LiveSendWaitExtension ==
    /\ ~pipe.panicked
    /\ \E w \in LiveOutcomes :
          LiveStep(Call("send_wait_extension", << >>, w,
                        send_wait_extension(pipe, w).pipe, send_wait_extension(pipe, w).ret))

NextLive ==
    \/ LiveXfrBlock
    \/ LiveExpectingMore
    \/ LivePollApp
    \/ LiveMaybeSendAccepted
    \/ LiveMaybeSendWouldBlock
    \/ LiveSendWaitExtension
    \/ AppTakeRequest
    \/ AppRespond

SpecLive ==
    /\ InitLive /\ [][NextLive]_vars
    /\ WF_vars(LiveExpectingMore)
    /\ WF_vars(LivePollApp)
    /\ WF_vars(LiveMaybeSendAccepted)
    /\ WF_vars(AppTakeRequest)
    /\ WF_vars(AppRespond)

(***************************************************************************)
(* Properties.  Those about what a call does are stated on the state the   *)
(* call starts from: for every call c in Calls(pipe), c.r is the state it  *)
(* leaves and c.r.log what it did.                                         *)
(***************************************************************************)
Recognised(command) == command \notin {"ShortPacket", "UnknownCommand"}

(* The call completed a bulk message and reached the match on its type *)
Dispatches(c) == c.op = "handle_packet" /\ Has(c.r.log, "command")

Command(c) == try_from(c.r.ext_packet)

IsSlotStatusError(f, error) == f.kind = "err" /\ At(f.bytes, 8) = error

(* C9: between entry-point calls, long_packet_missing > 0 implies          *)
(* receiving_long.                                                         *)
C9_LongPacketMissing == pipe.long_packet_missing > 0 => pipe.receiving_long

C9_Witness == pipe.receiving_long /\ pipe.long_packet_missing > 0

(* C8 as stated: between entry-point calls, bulk_abort is Some only when   *)
(* the State is Idle or Receiving and no APDU request is in flight.        *)
C8_Original ==
    pipe.bulk_abort # << >> =>
        /\ pipe.state \in {"Idle", "Receiving"}
        /\ pipe.ich_state \notin {"Requested", "BuildingResponse"}

(* C8, amended: bulk_abort becomes Some(s) exactly by a bulk Abort with    *)
(* bSeq s that is dispatched while no control abort is pending, and that   *)
(* command leaves the State and the interchange channel as they are: the   *)
(* State may be Idle, Receiving, Processing or Sending and a request may   *)
(* be in flight.                                                           *)
C8_BulkAbortSetByAbortOnly ==
    /\ pipe.bulk_abort # << >> =>
          pipe.state \in {"Idle", "Receiving", "Processing", "Sending"}
    /\ \A c \in Calls(pipe) :
          /\ (c.r.bulk_abort # << >> /\ c.r.bulk_abort # pipe.bulk_abort) =>
                /\ Dispatches(c) /\ Command(c) = "Abort"
                /\ pipe.control_abort = << >>
          /\ (Dispatches(c) /\ Command(c) = "Abort" /\ pipe.control_abort = << >>) =>
                /\ c.r.bulk_abort = << packet_seq(c.r.ext_packet) >>
                /\ c.r.state = pipe.state
                /\ c.r.ich_state = pipe.ich_state
                /\ c.r.ich_msg = pipe.ich_msg
                /\ Queued(c.r.log) = {}

C8_Witness ==
    /\ pipe.bulk_abort # << >>
    /\ pipe.state = "Processing"
    /\ pipe.ich_state = "Requested"

(* C5 as stated: after a frame of exactly PACKET_SIZE bytes is written (a  *)
(* zero-length packet is then owed: it is the frame in the outbox), the    *)
(* next frame any call writes is the zero-length packet.                   *)
C5_Original ==
    \A c \in Calls(pipe) :
        (pipe.outbox # << >> /\ pipe.outbox[1].kind = "zlp") =>
            \A f \in Written(c.r.log) : f.kind = "zlp"

(* C6 as stated, the particular case: after a bulk Abort(s), a             *)
(* GetSlotStatus does not undo the bulk half, so that expect_abort(0, s)   *)
(* after it runs the abort procedure.                                      *)
C6_Original ==
    \A c \in HandlePacketCalls(pipe) :
        (/\ pipe.bulk_abort # << >>
         /\ Dispatches(c) /\ Command(c) = "GetSlotStatus"
         /\ c.w = "ok") =>
            Has(expect_abort(Settle(c.r), pipe.bulk_abort[1], "ok").log, "abort")

(* C6, amended: the abort procedure runs, and queues its SlotStatusOk,     *)
(* exactly when expect_abort(0, s) arrives while bulk_abort is Some(s), or *)
(* a bulk Abort with bSeq s is dispatched while control_abort              *)
(* is Some(s); and every recognised command dispatched with no control     *)
(* abort pending undoes the bulk half, unless it is itself an Abort, whose *)
(* bSeq then is the bulk half.                                             *)
C6_AbortRendezvous ==
    \A c \in Calls(pipe) :
        LET bulk_completes ==
                /\ Dispatches(c) /\ Command(c) = "Abort"
                /\ pipe.control_abort = << packet_seq(c.r.ext_packet) >>
            control_completes ==
                c.op = "expect_abort" /\ pipe.bulk_abort = c.arg
        IN  /\ Has(c.r.log, "abort") <=> (bulk_completes \/ control_completes)
            /\ Has(c.r.log, "abort") =>
                  \E f \in Queued(c.r.log) : f.kind = "ok"
            /\ (\E f \in Queued(c.r.log) : f.kind = "ok" /\ c.op = "expect_abort") =>
                  Has(c.r.log, "abort")
            /\ (Dispatches(c) /\ Recognised(Command(c)) /\ pipe.control_abort = << >>
                  /\ Command(c) # "Abort") => c.r.bulk_abort = << >>

C6_Witness ==
    /\ pipe.control_abort # << >>
    /\ pipe.state = "Processing"
    /\ \E c \in HandlePacketCalls(pipe) :
          /\ Has(c.r.log, "abort")
          /\ \E f \in Written(c.r.log) : f.kind = "ok"

(* C7 as stated: while a request is being processed (State Processing,     *)
(* with nothing but an earlier wait-extension possibly pending in the      *)
(* outbox) and the endpoint accepts the frame or returns WouldBlock, a     *)
(* send_wait_extension call returns true, queues a WaitExtension frame and *)
(* leaves the pipe in Processing.                                          *)
C7_Original ==
    \A c \in SendWaitExtensionCalls(pipe) :
        (/\ pipe.state = "Processing"
         /\ pipe.outbox = << >> \/ pipe.outbox[1].kind = "wait"
         /\ c.w \in {"ok", "block"}) =>
            /\ c.ret
            /\ \E f \in Queued(c.r.log) : f.kind = "wait"
            /\ c.r.state = "Processing"

(* C10 as stated: while control_abort is Some(s), every bulk message that  *)
(* is not an Abort with bSeq s (recognised or not) is answered with        *)
(* SlotStatusError(CmdAborted) and control_abort stays Some(s).            *)
C10_Original ==
    \A c \in HandlePacketCalls(pipe) :
        (/\ pipe.control_abort # << >>
         /\ Dispatches(c)
         /\ ~(Command(c) = "Abort" /\ pipe.control_abort = << packet_seq(c.r.ext_packet) >>)
         /\ c.w \in {"ok", "block"}) =>
            /\ \E f \in Queued(c.r.log) : IsSlotStatusError(f, CmdAborted)
            /\ c.r.control_abort = pipe.control_abort

(* C10, amended: while control_abort is Some(s), every recognised bulk     *)
(* command that is not an Abort with bSeq s is answered with               *)
(* SlotStatusError(CmdAborted) carrying its bSeq and is not dispatched (no *)
(* request is started or sent to the application, the bulk half is not     *)
(* recorded); a message with an unknown command byte is answered with      *)
(* SlotStatusError(CommandNotSupported); and in both cases control_abort   *)
(* stays Some(s) unless the endpoint write fails, which resets the pipe.   *)
(* control_abort changes only by expect_abort, the abort procedure or a    *)
(* reset.                                                                  *)
C10_ControlAbortPoisons ==
    \A c \in Calls(pipe) :
        /\ (/\ pipe.control_abort # << >>
            /\ Dispatches(c)
            /\ ~(Command(c) = "Abort"
                   /\ pipe.control_abort = << packet_seq(c.r.ext_packet) >>)) =>
              /\ \E f \in Queued(c.r.log) :
                    /\ IsSlotStatusError(f, IF Recognised(Command(c))
                                            THEN CmdAborted ELSE CommandNotSupported)
                    /\ FrameSeq(f) = At(c.r.ext_packet, 6)
              /\ ~Has(c.r.log, "begin") /\ ~Has(c.r.log, "call_app")
              /\ ~Has(c.r.log, "abort")
              /\ c.r.bulk_abort = pipe.bulk_abort \/ Has(c.r.log, "reset")
              /\ c.w \in {"ok", "block"} => c.r.control_abort = pipe.control_abort
        /\ c.r.control_abort # pipe.control_abort =>
              c.op = "expect_abort" \/ Has(c.r.log, "abort") \/ Has(c.r.log, "reset")

C10_Witness ==
    /\ pipe.control_abort # << >>
    /\ \E c \in HandlePacketCalls(pipe) :
          /\ Command(c) = "GetSlotStatus"
          /\ \E f \in Written(c.r.log) : IsSlotStatusError(f, CmdAborted)
          /\ c.r.control_abort = pipe.control_abort

(* The bSeq of the command that caused a frame queued by call c: for a     *)
(* chunk of a response and for a wait-extension, the XfrBlock that opened  *)
(* the transaction; for the SlotStatusOk of expect_abort, the bSeq of the  *)
(* abort; for any other frame, the bulk message handle_packet completed.   *)
Cause(c, f) ==
    CASE f.kind \in {"resp", "wait"} -> Track(hist, c).txn
      [] c.op = "expect_abort" -> c.arg[1]
      [] c.op = "handle_packet" -> At(c.r.ext_packet, 6)
      [] OTHER -> FrameSeq(f)

(* C1 as stated: every frame a call builds and writes carries the bSeq of  *)
(* the command that caused it.                                             *)
C1_Original ==
    \A c \in Calls(pipe) :
        \A f \in Queued(c.r.log) \cap Written(c.r.log) :
            f.kind # "zlp" => FrameSeq(f) = Cause(c, f)

(* C2 as stated: every frame written carries the bSeq of the most recent   *)
(* fully received bulk message.                                            *)
C2_Original ==
    \A c \in Calls(pipe) :
        \A f \in Written(c.r.log) :
            f.kind # "zlp" => FrameSeq(f) = Track(hist, c).cmdseq

(* C2, amended: every frame carries the bSeq of the bulk message that was  *)
(* the most recent fully received one when the frame was built; a frame    *)
(* that waits in the outbox (the endpoint returned WouldBlock) keeps that  *)
(* bSeq and is written with it, also when a later message has arrived.     *)
C2_SeqOfMostRecentWhenBuilt ==
    \A c \in Calls(pipe) :
        /\ \A f \in Queued(c.r.log) :
              f.kind # "zlp" => FrameSeq(f) = Track(hist, c).cmdseq
        /\ \A f \in Written(c.r.log) :
              f.kind # "zlp" =>
                 \/ f \in Queued(c.r.log)
                 \/ pipe.outbox = << f >> /\ FrameSeq(f) = hist.qseq

C2_Witness ==
    /\ pipe.outbox # << >>
    /\ pipe.outbox[1].kind = "ok"
    /\ hist.qseq # hist.cmdseq
    /\ \E c \in MaybeSendPacketCalls(pipe) : pipe.outbox[1] \in Written(c.r.log)

(* C3 as stated: the DataBlock frames that carry a response are written in *)
(* order (a frame tagged Begins or BeginsAndEnds is the first of its       *)
(* response and no other is, each frame carries the bytes of the response  *)
(* that follow those already written, the frame that completes the         *)
(* response is tagged Ends or BeginsAndEnds and no other is, and none      *)
(* follows it), and no chunk is dropped: a response of which a frame was   *)
(* written does not stop short of its final frame, unless the pipe is      *)
(* reset or the transfer is aborted.                                       *)
C3_Original ==
    \A c \in Calls(pipe) :
        LET b == BurstFold(hist.burst, c.r.log) IN
        /\ b.ok
        /\ (hist.burst.n > 0 /\ ~b.done /\ BurstOver(c.r)) =>
              \/ Has(c.r.log, "reset") \/ Has(c.r.log, "abort")
              \/ c.r.panicked

(* A message is well framed when it is a single packet if it fits in one,  *)
(* and otherwise its first packet is full (PACKET_SIZE bytes).             *)
WellFramed(f) ==
    IF Len(f.msg) <= PACKET_SIZE THEN Len(f.sizes) = 1 ELSE f.sizes[1] = PACKET_SIZE

Reassembled(f) ==
    LET payload == SubSeq(f.msg, CCID_HEADER_LEN + 1, Len(f.msg)) IN
    /\ f.rest # << >> => f.dispatched = 0 /\ ~pipe.panicked
    /\ f.rest = << >> =>
          /\ f.dispatched = 1
          /\ ~pipe.panicked
          /\ pipe.ext_packet = f.msg
          /\ data(pipe.ext_packet) = [panic |-> FALSE, bytes |-> payload]
          /\ pipe.ich_msg = Rq(payload)
          /\ pipe.state = "Processing"

(* C4 as stated: for every partition of a message into packets of at most  *)
(* PACKET_SIZE bytes, the first of at least 10, the command is dispatched  *)
(* exactly once, after the last packet, on the original bytes.             *)
C4_Original == feed.msg # << >> => Reassembled(feed)

(* C4, amended: for every message that is one packet when it fits in       *)
(* PACKET_SIZE bytes, and whose first packet is full otherwise (the later  *)
(* packets having any sizes), the command is dispatched exactly once,      *)
(* after the last packet, on a reassembled message whose payload is the    *)
(* original D bytes.                                                       *)
C4_ReassemblyRoundTrip == (feed.msg # << >> /\ WellFramed(feed)) => Reassembled(feed)

C4_Witness ==
    /\ feed.msg # << >> /\ WellFramed(feed)
    /\ Len(feed.sizes) >= 3
    /\ feed.rest = << >>
    /\ feed.dispatched = 1
    /\ pipe.ich_msg = Rq(SubSeq(feed.msg, CCID_HEADER_LEN + 1, Len(feed.msg)))

(* The fields reset_state assigns *)
FieldsAtConstruction(r) ==
    /\ r.seq = new.seq /\ r.state = new.state /\ r.sent = new.sent
    /\ r.outbox = new.outbox /\ r.packet_len = new.packet_len
    /\ r.receiving_long = new.receiving_long
    /\ r.long_packet_missing = new.long_packet_missing
    /\ r.in_chain = new.in_chain
    /\ r.started_processing = new.started_processing
    /\ r.bulk_abort = new.bulk_abort /\ r.control_abort = new.control_abort

(* The call ended in reset_state *)
EndsInReset(c) == c.r.log # << >> /\ c.r.log[Len(c.r.log)].e = "reset"

(* C14: did_start_processing returns true exactly when an APDU request was *)
(* dispatched since its previous true result with no reset_state or abort  *)
(* in between; a call that returns true leaves started_processing false    *)
(* and changes nothing else, so the next call returns false; a call that   *)
(* returns false changes nothing.                                          *)
C14_EdgeTriggered ==
    \A c \in DidStartProcessingCalls(pipe) :
        /\ c.ret <=> hist.armed
        /\ ~c.r.started_processing
        /\ c.r = [pipe EXCEPT !.started_processing = FALSE]
        /\ ~did_start_processing(c.r).ret

C14_Witness ==
    /\ hist.armed /\ pipe.state = "Processing"
    /\ \E c \in DidStartProcessingCalls(pipe) : c.ret /\ ~c.r.started_processing

(* C12 as stated: after reset_state every field, the reassembly buffer     *)
(* included, has its value at construction and the channel is Idle and     *)
(* empty.                                                                  *)
C12_Original ==
    \A c \in ResetStateCalls(pipe) :
        /\ FieldsAtConstruction(c.r)
        /\ c.r.ext_packet = new.ext_packet
        /\ c.r.ich_state = "Idle" /\ c.r.ich_msg = NoMsg

(* C12, amended: after reset_state, called directly or at the end of any   *)
(* other call, every field it assigns has its value at construction and    *)
(* the channel is Idle with no request or response pending; the            *)
(* reassembly buffer ext_packet is not cleared: reset_state leaves its     *)
(* bytes as they were.                                                     *)
C12_ResetRestores ==
    \A c \in Calls(pipe) :
        (EndsInReset(c) /\ ~c.r.panicked) =>
            /\ FieldsAtConstruction(c.r)
            /\ c.r.ich_state = "Idle" /\ c.r.ich_msg = NoMsg
            /\ c.op = "reset_state" => c.r.ext_packet = pipe.ext_packet

C12_Witness ==
    /\ pipe.state = "Sending" /\ pipe.outbox # << >>
    /\ pipe.control_abort # << >> /\ pipe.ext_packet # << >>
    /\ pipe.ich_state = "Responded"
    /\ \E c \in ResetStateCalls(pipe) : c.r.ich_state = "Idle" /\ c.r.state = "Idle"

(* The reset state: the fields reset_state assigns have their values at    *)
(* construction and no request or response is in flight.                   *)
ResetPost(r) ==
    /\ FieldsAtConstruction(r)
    /\ r.ich_state \notin {"Requested", "BuildingResponse", "Responded"}

WithoutLog(r) == [r EXCEPT !.log = << >>]

(* C18: send_wait_extension returns true exactly when the State is         *)
(* Processing; it then queues exactly one frame, the WaitExtension (type   *)
(* 0x80, bSeq = seq, bStatus = 2<<6, bError = 1); when it returns false it *)
(* changes nothing and queues or writes nothing.                           *)
C18_WaitExtension ==
    \A c \in SendWaitExtensionCalls(pipe) :
        /\ c.ret <=> pipe.state = "Processing"
        /\ c.ret =>
              /\ Len(SelectSeq(c.r.log, LAMBDA ev : ev.e = "queue")) = 1
              /\ Queued(c.r.log) =
                    { Frame("wait", << 128, 0, 0, 0, 0, 0, pipe.seq, 128, 1, 0 >>) }
              /\ Written(c.r.log) \subseteq Queued(c.r.log)
        /\ ~c.ret => c.r = pipe

C18_Witness ==
    /\ pipe.state = "Processing" /\ pipe.seq > 0
    /\ \E c \in SendWaitExtensionCalls(pipe) :
          c.ret /\ \E f \in Written(c.r.log) : f.kind = "wait"

(* C19: maybe_send_packet does nothing with an empty outbox; with a frame  *)
(* pending, WouldBlock changes nothing; a full write (of a zero-length     *)
(* packet, any Ok) writes the frame, empties the outbox, or leaves a       *)
(* zero-length packet in it when the frame was PACKET_SIZE long, and       *)
(* changes nothing else; a partial write or another error writes nothing   *)
(* and leaves the pipe in the reset state.                                 *)
C19_MaybeSendOutcomes ==
    \A c \in MaybeSendPacketCalls(pipe) :
        IF pipe.outbox = << >> THEN c.r = pipe
        ELSE LET f == pipe.outbox[1]
                 full == c.w = "ok" \/ (c.w = "partial" /\ f.bytes = << >>)
             IN  /\ c.w = "block" => c.r = pipe
                 /\ full =>
                       /\ c.r.log = << EvF("write", f) >>
                       /\ WithoutLog(c.r) =
                             [pipe EXCEPT !.outbox =
                                 IF Len(f.bytes) = PACKET_SIZE
                                 THEN << Frame("zlp", << >>) >> ELSE << >>]
                 /\ (c.w # "block" /\ ~full) =>
                       /\ ResetPost(c.r)
                       /\ Written(c.r.log) = {}

C19_Witness ==
    /\ pipe.outbox # << >> /\ Len(pipe.outbox[1].bytes) = PACKET_SIZE
    /\ pipe.state = "Sending"
    /\ \E c \in MaybeSendPacketCalls(pipe) :
          c.w = "ok" /\ c.r.outbox = << Frame("zlp", << >>) >>

(* C20 as stated: when the two halves of an abort match on the sequence    *)
(* number s (expect_abort(0, s) with bulk_abort = Some(s), or a bulk Abort *)
(* with bSeq s with control_abort = Some(s)), the call ends with both      *)
(* halves None, State Idle, started_processing and receiving_long false,   *)
(* long_packet_missing 0, no request left for the APDU processor, the      *)
(* pending frame dropped, and the only frame queued is SlotStatusOk with   *)
(* bSeq = s.                                                               *)
C20_Original ==
    \A c \in Calls(pipe) :
        LET bulk_completes ==
                /\ Dispatches(c) /\ Command(c) = "Abort"
                /\ pipe.control_abort = << packet_seq(c.r.ext_packet) >>
            control_completes ==
                c.op = "expect_abort" /\ pipe.bulk_abort = c.arg
            s == IF c.op = "expect_abort" THEN c.arg[1] ELSE packet_seq(c.r.ext_packet)
        IN  (bulk_completes \/ control_completes) =>
              /\ c.r.bulk_abort = << >> /\ c.r.control_abort = << >>
              /\ c.r.state = "Idle"
              /\ ~c.r.started_processing /\ ~c.r.receiving_long
              /\ c.r.long_packet_missing = 0
              /\ c.r.ich_state \notin {"Requested", "BuildingResponse"}
              /\ pipe.outbox # << >> =>
                    /\ Has(c.r.log, "drop")
                    /\ c.r.outbox # pipe.outbox
              /\ Queued(c.r.log) =
                    { Frame("ok", << 129, 0, 0, 0, 0, 0, s, 0, 0, 0 >>) }

(* C17 as stated: when poll_app runs in State Processing with the          *)
(* rendezvous in Responded (the endpoint accepting the write or returning  *)
(* WouldBlock), the outbox being empty or holding a wait-extension frame   *)
(* whose write returned WouldBlock, the response is not discarded:         *)
(* sent becomes the length of the first chunk, min(PACKET_SIZE - 10, len), *)
(* a DataBlock with these bytes is queued, tagged Begins with State        *)
(* Sending if more bytes remain and BeginsAndEnds with State Idle if not.  *)
C17_Original ==
    \A c \in PollAppCalls(pipe) :
        (/\ pipe.state = "Processing" /\ pipe.ich_state = "Responded"
         /\ pipe.outbox = << >> \/ pipe.outbox[1].kind = "wait"
         /\ c.w \in {"ok", "block"}) =>
            LET message == pipe.ich_msg.bytes
                chunk_size == Min(PACKET_SIZE - CCID_HEADER_LEN, Len(message))
                more == chunk_size < Len(message)
            IN  /\ ~Has(c.r.log, "reset")
                /\ c.r.ich_state = "Responded" /\ c.r.ich_msg = pipe.ich_msg
                /\ c.r.sent = chunk_size
                /\ Queued(c.r.log) =
                      { Frame("resp", DataBlock(pipe.seq,
                                        IF more THEN "Begins" ELSE "BeginsAndEnds",
                                        SubSeq(message, 1, chunk_size)).bytes) }
                /\ c.r.state = IF more THEN "Sending" ELSE "Idle"

(* C15 as stated: an XfrBlock whose request data fits the request buffer,  *)
(* arriving while the channel can take a request and the endpoint accepts  *)
(* the write or returns WouldBlock, whatever the outbox holds:             *)
(* (Idle, BeginsAndEnds) dispatches the request, ends in Processing and    *)
(* queues no frame; (Idle, Begins) ends in Receiving and queues an empty   *)
(* DataBlock tagged ExpectingMore; (Receiving, Continues) does the same;   *)
(* (Receiving, Ends) dispatches the request, ends in Processing and queues *)
(* no frame.                                                               *)
C15_Original ==
    \A c \in ChainPacketCalls(pipe) :
        LET ch == chain(c.arg)
            begins == pipe.state = "Idle" /\ ch \in {"BeginsAndEnds", "Begins"}
            continues == pipe.state = "Receiving" /\ ch \in {"Continues", "Ends"}
            available == IF begins THEN ich_request_mut_ok(reset_interchange(pipe))
                         ELSE ich_request_mut_ok(pipe)
            fits == extend_ok(pipe, data(c.arg).bytes, begins)
            more == Frame("empty", DataBlock(packet_seq(c.arg), "ExpectingMore", << >>).bytes)
        IN  (/\ ~pipe.panicked
             /\ begins \/ continues
             /\ available /\ fits /\ c.w \in {"ok", "block"}) =>
              IF ch \in {"BeginsAndEnds", "Ends"}
              THEN /\ c.r.state = "Processing"
                   /\ Has(c.r.log, "call_app")
                   /\ c.r.ich_state = "Requested"
                   /\ Queued(c.r.log) = {}
              ELSE /\ c.r.state = "Receiving"
                   /\ c.r.ich_state = "BuildingRequest"
                   /\ Queued(c.r.log) = { more }

(* C16 as stated: an XfrBlock that violates the chaining protocol (a       *)
(* chaining tag that is not legal in the current State, or a level         *)
(* parameter that is none of the five) never panics, leaves the pipe in    *)
(* the reset state with no request or response in flight, and queues and   *)
(* writes no frame.                                                        *)
C16_Original ==
    \A c \in ChainPacketCalls(pipe) :
        LET ch == chain(c.arg)
            legal == \/ pipe.state = "Idle" /\ ch \in {"BeginsAndEnds", "Begins"}
                     \/ pipe.state = "Receiving" /\ ch \in {"Continues", "Ends"}
                     \/ pipe.state = "Sending" /\ ch = "ExpectingMore"
        IN  (~pipe.panicked /\ ~legal) =>
              /\ ~c.r.panicked
              /\ ResetPost(c.r)
              /\ Queued(c.r.log) = {} /\ Written(c.r.log) = {}

(* The bytes of chunk are consecutive bytes of message *)
IsChunk(chunk, message) ==
    \E off \in 0..Len(message) :
        /\ off + Len(chunk) <= Len(message)
        /\ chunk = SubSeq(message, off + 1, off + Len(chunk))

(* C13: a handle_packet call queues a frame only if it is given the last   *)
(* USB packet of a message (a first packet whose dwLength fits the packet, *)
(* or the continuation packet that brings the missing bytes), which it     *)
(* then dispatches, and the frame carries the bSeq of that message; and    *)
(* whenever any call queues a DataBlock of a response, the APDU processor  *)
(* has responded to the request of the last dispatch, with no dispatch,    *)
(* reset or abort since, and the frame carries bytes of that response.     *)
C13_ResponseAfterCommand ==
    \A c \in Calls(pipe) :
        /\ (c.op = "handle_packet" /\ Queued(c.r.log) # {}) =>
              /\ Dispatches(c)
              /\ IF pipe.receiving_long
                 THEN Len(c.arg) >= pipe.long_packet_missing
                 ELSE data_len(c.arg) <= PACKET_SIZE - CCID_HEADER_LEN
              /\ \A f \in Queued(c.r.log) : FrameSeq(f) = packet_seq(c.r.ext_packet)
        /\ \A i \in 1..Len(c.r.log) :
              (c.r.log[i].e = "queue" /\ c.r.log[i].f.kind = "resp") =>
                 LET answer == AnswerFold(hist.answer, SubSeq(c.r.log, 1, i - 1))
                 IN  /\ answer # << >>
                     /\ IsChunk(FramePayload(c.r.log[i].f), answer[1])
                     /\ pipe.ich_state = "Responded"
                     /\ pipe.ich_msg = Rp(answer[1])

(* A long message is half received and the response to the request before *)
(* it is ready: the last packet of the message is answered at once, and    *)
(* poll_app writes the first chunk of the response.                        *)
C13_Witness ==
    /\ pipe.receiving_long /\ pipe.state = "Processing" /\ hist.answer # << >>
    /\ \E c \in HandlePacketCalls(pipe) :
          /\ c.arg = << 7 >> /\ Dispatches(c)
          /\ \E f \in Queued(c.r.log) : IsSlotStatusError(f, CmdAborted)
    /\ \E c \in PollAppCalls(pipe) :
          \E f \in Written(c.r.log) :
              f.kind = "resp" /\ Len(FramePayload(f)) = FullPayload

(* The handle_packet calls that deliver the next packet of the feed *)
FeedCalls ==
    IF feed.rest = << >> \/ pipe.panicked THEN {}
    ELSE { Call("handle_packet", Head(feed.rest), w,
                handle_packet(pipe, Head(feed.rest), w), FALSE) : w \in WriteOutcomes }

(* C11: no call panics on an append or in call_app.  A continuation packet *)
(* that would make the reassembly buffer longer than MAX_MSG_LENGTH, and   *)
(* an XfrBlock (BeginsAndEnds or Begins in Idle, Continues or Ends in      *)
(* Receiving, the channel taking a request) whose data would make the      *)
(* request longer than N, end in reset_state: the pipe is in the reset     *)
(* state, receiving_long is false, no request or response is in flight,    *)
(* and no frame is queued or written.  A message or a request that fills   *)
(* its buffer exactly is accepted.                                         *)
C11_OverflowResets ==
    \A c \in FeedCalls :
        LET packet == c.arg
            ext == IF pipe.receiving_long THEN pipe.ext_packet \o packet ELSE packet
            reassembly_overflow ==
                pipe.receiving_long /\ Len(ext) > MAX_MSG_LENGTH
            complete ==
                IF pipe.receiving_long THEN Len(packet) >= pipe.long_packet_missing
                ELSE data_len(packet) <= PACKET_SIZE - CCID_HEADER_LEN
            begins == pipe.state = "Idle" /\ chain(ext) \in {"BeginsAndEnds", "Begins"}
            continues == pipe.state = "Receiving" /\ chain(ext) \in {"Continues", "Ends"}
            available == IF begins THEN ich_request_mut_ok(reset_interchange(pipe))
                         ELSE ich_request_mut_ok(pipe)
            request == IF begins THEN << >> ELSE pipe.ich_msg.bytes
            request_len == Len(request)
            appended == ~reassembly_overflow /\ complete /\ (begins \/ continues) /\ available
            request_overflow == appended /\ request_len + Len(data(ext).bytes) > N
        IN  /\ ~c.r.panicked
            /\ (reassembly_overflow \/ request_overflow) =>
                  /\ EndsInReset(c)
                  /\ ResetPost(c.r) /\ ~c.r.receiving_long
                  /\ Queued(c.r.log) = {} /\ Written(c.r.log) = {}
            /\ (appended /\ ~request_overflow) =>
                  /\ ~Has(c.r.log, "reset") \/ c.w \in {"partial", "error"}
                  /\ chain(ext) \in {"BeginsAndEnds", "Ends"} =>
                        /\ Has(c.r.log, "call_app")
                        /\ c.r.ich_msg = Rq(request \o data(ext).bytes)

(* The reassembly buffer is full and the message is not complete: the next *)
(* packet is refused.                                                      *)
C11_Witness ==
    /\ pipe.receiving_long /\ Len(pipe.ext_packet) = MAX_MSG_LENGTH
    /\ pipe.long_packet_missing > 0
    /\ \E c \in FeedCalls : EndsInReset(c) /\ ~c.r.receiving_long

(* C24: between entry-point calls, and in the state every call leaves, the *)
(* State is Idle, Receiving, Processing or Sending, never ReadyToSend.     *)
C24_ReadyToSendTransient ==
    /\ pipe.state \in {"Idle", "Receiving", "Processing", "Sending"}
    /\ \A c \in Calls(pipe) :
          c.r.state \in {"Idle", "Receiving", "Processing", "Sending"}

(* poll_app passes through ReadyToSend, with the outbox empty (the first   *)
(* chunk is queued) and with a frame pending (reset).                      *)
C24_Witness ==
    /\ pipe.state = "Processing" /\ pipe.ich_state = "Responded"
    /\ pipe.outbox # << >>
    /\ \E c \in PollAppCalls(pipe) : Has(c.r.log, "observed") /\ c.r.state = "Idle"

(* C25: between entry-point calls the two halves of an abort are never     *)
(* both Some with the same sequence number, and a call that sets           *)
(* bulk_abort starts with control_abort None.                              *)
C25_HalvesNeverMatchAtRest ==
    /\ ~(pipe.bulk_abort # << >> /\ pipe.bulk_abort = pipe.control_abort)
    /\ \A c \in Calls(pipe) :
          /\ ~(c.r.bulk_abort # << >> /\ c.r.bulk_abort = c.r.control_abort)
          /\ (c.r.bulk_abort # << >> /\ c.r.bulk_abort # pipe.bulk_abort) =>
                pipe.control_abort = << >>

(* Both halves are pending, with different sequence numbers, and the       *)
(* matching control half completes the abort.                              *)
C25_Witness ==
    /\ pipe.bulk_abort # << >> /\ pipe.control_abort # << >>
    /\ \E c \in ExpectAbortCalls(pipe) :
          Has(c.r.log, "abort") /\ c.r.bulk_abort = << >> /\ c.r.control_abort = << >>

(* C22 as stated: a fully received bulk message with an unknown command    *)
(* byte (the endpoint accepting the write or returning WouldBlock) is      *)
(* answered with SlotStatusError(CommandNotSupported), bStatus 1<<6,       *)
(* bError 0, carrying byte 6 of the message as bSeq, and State,            *)
(* bulk_abort, control_abort, sent and the rendezvous are as before.       *)
C22_Original ==
    \A c \in HandlePacketCalls(pipe) :
        (/\ ~pipe.panicked
         /\ Dispatches(c) /\ Command(c) = "UnknownCommand"
         /\ c.w \in {"ok", "block"}) =>
            /\ Queued(c.r.log) =
                  { Frame("err", << 108, 0, 0, 0, 0, 0, At(c.r.ext_packet, 6),
                                    64, CommandNotSupported, 0 >>) }
            /\ c.r.state = pipe.state
            /\ c.r.bulk_abort = pipe.bulk_abort
            /\ c.r.control_abort = pipe.control_abort
            /\ c.r.sent = pipe.sent
            /\ c.r.ich_state = pipe.ich_state /\ c.r.ich_msg = pipe.ich_msg

(* C26 as stated: a local command (PowerOn, PowerOff, GetSlotStatus,       *)
(* GetParameters) dispatched with control_abort None in State Receiving,   *)
(* Processing or Sending (the endpoint accepting the write or returning    *)
(* WouldBlock) leaves State, sent, the rendezvous and started_processing   *)
(* as they were, with or without a frame pending in the outbox, and a      *)
(* pending frame is not discarded: it is still pending or it was written.  *)
C26_Original ==
    \A c \in HandlePacketCalls(pipe) :
        (/\ ~pipe.panicked
         /\ Dispatches(c)
         /\ Command(c) \in {"PowerOn", "PowerOff", "GetSlotStatus", "GetParameters"}
         /\ pipe.control_abort = << >>
         /\ pipe.state \in {"Receiving", "Processing", "Sending"}
         /\ c.w \in {"ok", "block"}) =>
            /\ c.r.state = pipe.state
            /\ c.r.sent = pipe.sent
            /\ c.r.ich_state = pipe.ich_state /\ c.r.ich_msg = pipe.ich_msg
            /\ c.r.started_processing = pipe.started_processing
            /\ pipe.outbox # << >> =>
                  \/ c.r.outbox = pipe.outbox
                  \/ pipe.outbox[1] \in Written(c.r.log)

(* C23 as stated: for every XfrBlock that handle_packet dispatches,        *)
(* whatever its header declares and however the bytes arrived, taking the  *)
(* payload stays inside the reassembled message (the call does not panic)  *)
(* and the request handed to the APDU processor is made of bytes of the    *)
(* message that follow the header.                                         *)
C23_Original ==
    \A c \in FeedCalls :
        (Dispatches(c) /\ Command(c) = "XfrBlock") =>
            /\ ~data(c.r.ext_packet).panic
            /\ ~c.r.panicked
            /\ Has(c.r.log, "call_app") =>
                  c.r.ich_msg.bytes =
                      Slice(c.r.ext_packet, CCID_HEADER_LEN, Len(c.r.ich_msg.bytes))

(* C21: whenever an XfrBlock that ends a request (BeginsAndEnds in Idle,   *)
(* Ends in Receiving) is accepted, the pipe enters Processing and the      *)
(* request handed to the APDU processor is the concatenation, in arrival   *)
(* order, of the payloads of the XfrBlocks of its chain and nothing else,  *)
(* also when a local command came between them; and while the pipe is      *)
(* Receiving, the request under construction is what was sent so far.      *)
C21_RequestAssembled ==
    /\ pipe.state = "Receiving" =>
          pipe.ich_state = "BuildingRequest" /\ pipe.ich_msg = Rq(feed.msg)
    /\ \A c \in AssembleCalls(pipe) :
          Has(c.r.log, "call_app") =>
              /\ Begun(pipe, c) \/ Continued(pipe, c)
              /\ chain(c.arg) \in {"BeginsAndEnds", "Ends"}
              /\ c.r.state = "Processing"
              /\ c.r.ich_state = "Requested"
              /\ c.r.ich_msg = Rq(Sent(feed, pipe, c).msg)
              /\ Sent(feed, pipe, c).msg =
                    (IF Begun(pipe, c) THEN << >> ELSE feed.msg) \o data(c.arg).bytes

(* Begins, Continues and a local command have arrived after an earlier     *)
(* transaction, and the Ends completes a request of three pieces.          *)
C21_Witness ==
    /\ pipe.state = "Receiving" /\ feed.dispatched = 1
    /\ hist.answer # << >>
    /\ feed.msg = Pattern(1, 2) \o Pattern(3, ContinuesLen)
    /\ \E c \in AssembleCalls(pipe) :
          /\ Has(c.r.log, "call_app")
          /\ c.r.ich_msg = Rq(Pattern(1, 2) \o Pattern(3, ContinuesLen) \o Pattern(200, 2))

(* C27 as stated: under the fairness of SpecLive, every XfrBlock accepted  *)
(* into Processing eventually has its complete response written, with the  *)
(* outbox None and the pipe back in Idle, with or without wait-extensions  *)
(* in between.                                                             *)
C27_Original ==
    (pipe.state = "Processing" /\ feed.dispatched = 0)
        ~> (feed.dispatched = 1 /\ pipe.outbox = << >> /\ pipe.state = "Idle")

====
